---- MODULE Spec2Model ----
(***************************************************************************)
(* Task synchronisation state machine of the todos app (the App component  *)
(* with AsyncStorage caching): React state, the AsyncStorage slot 'tasks', *)
(* the asynchronous functions loadStoredTasks, fetchTasks and              *)
(* handleRefresh, and the user's handlers.                                 *)
(*                                                                         *)
(* One action is one run-to-completion piece of JavaScript: the code from  *)
(* the resumption of an await (or from a user event) up to the next await. *)
(* The setState updaters queued in such a piece are applied in order.      *)
(***************************************************************************)
EXTENDS Integers, Sequences, FiniteSets, TLC

\* ------------------------------------------------------------------ bounds
MaxTasks == 2       \* the remote source holds the tasks 1..MaxTasks
MaxRefresh == 2     \* handleRefresh invocations that can be in flight at once

\* --------------------------------------------------------------- constants
Null == "null"
ErrorMessage == "Failed to load tasks. Please try again later."

FILTER_ALL == "ALL"
FILTER_COMPLETED == "COMPLETED"
FILTER_INCOMPLETE == "INCOMPLETE"
FILTER == {FILTER_ALL, FILTER_COMPLETED, FILTER_INCOMPLETE}

Ids == 1..MaxTasks
Titles == {"Buy milk", "Pay bills"}

\* interface Task
Task == [id : Ids, title : Titles, completed : BOOLEAN]

\* The ids of a collection, in order.
IdsOf(ts) == {ts[i].id : i \in 1..Len(ts)}

\* Every Task[] with unique ids, of any length, order and titles.
TaskCollections ==
    UNION {{ts \in [1..n -> Task] :
                \A i, j \in 1..n : i # j => ts[i].id # ts[j].id}
           : n \in 0..MaxTasks}

\* The title the remote source gives the task with this id.
TitleOf(id) == IF id % 2 = 1 THEN "Buy milk" ELSE "Pay bills"

\* The collections axios.get resolves with: no task at all, or the tasks
\* 1..MaxTasks in the remote source's order, each completed or not.
RemoteAnswers ==
    UNION {{ts \in [1..n -> Task] :
                \A i \in 1..n : ts[i].id = i /\ ts[i].title = TitleOf(i)}
           : n \in {0, MaxTasks}}

\* ------------------------------------------------------------ JSON strings
\* A JSON text is a sequence of tokens; every token has the same shape.
NoFields == <<0, "", FALSE>>
LBracket == [k |-> "[", v |-> NoFields]
RBracket == [k |-> "]", v |-> NoFields]
ObjToken(t) == [k |-> "{}", v |-> <<t.id, t.title, t.completed>>]

\* JSON.stringify(Task[])
JSONStringify(ts) ==
    <<LBracket>> \o [i \in 1..Len(ts) |-> ObjToken(ts[i])] \o <<RBracket>>

\* JSON.parse throws a SyntaxError on a text that is not well formed.
JSONParseThrows(text) ==
    \/ Len(text) < 2
    \/ text[1] # LBracket
    \/ text[Len(text)] # RBracket
    \/ \E i \in 2..(Len(text) - 1) : text[i].k # "{}"

\* JSON.parse of a well-formed array text
JSONParse(text) ==
    [i \in 1..(Len(text) - 2) |->
        [id |-> text[i + 1].v[1], title |-> text[i + 1].v[2],
         completed |-> text[i + 1].v[3]]]

\* The empty string and an unterminated array: stored values that are not JSON.
EmptyText == << >>
TruncatedText == <<LBracket>>

\* What AsyncStorage.getItem('tasks') resolves with: null, or the stored string.
NoItem == [present |-> FALSE, text |-> EmptyText]
Item(text) == [present |-> TRUE, text |-> text]

\* JavaScript truthiness of getItem's result: null and '' are falsy.
Truthy(item) == item.present /\ Len(item.text) > 0


\* ------------------------------------------------------------------- state
InitProc == 0                       \* the useEffect's loadStoredTasks
RefreshSlots == 1..MaxRefresh       \* invocations of handleRefresh
Procs == {InitProc} \cup RefreshSlots

VARIABLES
    state,          \* useState<AppState>: tasks, loading, error, refreshing, filter
    cache,          \* the AsyncStorage slot 'tasks'
    mounted,        \* the component is rendered (FALSE once a render has thrown)
    pc,             \* where each asynchronous function is suspended
    response,       \* fetchTasks' local response.data, per invocation
    storageQueue,   \* AsyncStorage.setItem calls issued and not yet completed
    lastOp,         \* the piece of code that ran last (dirty: it discarded toggles)
    initFetches,    \* axios.get calls issued on behalf of loadStoredTasks
    preRefresh,     \* tasks when the handleRefresh of slot 1 started, while it fetches
    localToggles,   \* a toggleComplete has been applied since tasks was last replaced
    ignoredUpdate,  \* the piece of code that ran last called setState after unmount
    loadedOnce,     \* a render has seen loading false
    lastSaved,      \* response.data of the fetch whose setItem resolved last
    tornDownDuring  \* the calls of fetchTasks outstanding when the host unmounted

vars == <<state, cache, mounted, pc, response, storageQueue, lastOp,
          initFetches, preRefresh, localToggles, ignoredUpdate, loadedOnce,
          lastSaved, tornDownDuring>>

NoTasks == << >>

\* No setItem of this run has resolved yet.
NothingSaved == [saved |-> FALSE, data |-> NoTasks]
Saved(data) == [saved |-> TRUE, data |-> data]

Op(name, p) == [op |-> name, proc |-> p, dirty |-> FALSE]

\* useState's initial value
InitialAppState ==
    [tasks |-> NoTasks, loading |-> TRUE, error |-> Null, refreshing |-> FALSE,
     filter |-> FILTER_ALL]

\* The values the slot can hold when the app starts: never written, written by
\* an earlier run (JSON.stringify of a collection), or damaged.
InitialCacheValues ==
    {NoItem, Item(EmptyText), Item(TruncatedText)}
        \cup {Item(JSONStringify(c)) : c \in RemoteAnswers}

\* The component has mounted, the effect has run and getItem is outstanding.
Init ==
    /\ state = InitialAppState
    /\ cache \in InitialCacheValues
    /\ mounted = TRUE
    /\ pc = [p \in Procs |-> IF p = InitProc THEN "getItem" ELSE "idle"]
    /\ response = [p \in Procs |-> NoTasks]
    /\ storageQueue = << >>
    /\ lastOp = Op("mount", InitProc)
    /\ initFetches = 0
    /\ preRefresh = NoTasks
    /\ localToggles = FALSE
    /\ ignoredUpdate = FALSE
    /\ loadedOnce = FALSE
    /\ lastSaved = NothingSaved
    /\ tornDownDuring = {}

\* ------------------------------------------------------------ the view
\* (variant: the negation of the INCOMPLETE branch is missing)
FilterKeeps_NoNegation(task, filter) ==
    IF filter = FILTER_COMPLETED THEN task.completed
    ELSE IF filter = FILTER_INCOMPLETE THEN task.completed
    ELSE TRUE

\* filteredTasks: Array.prototype.filter with the three-way predicate
FilterKeeps(task, filter) ==
    IF filter = FILTER_COMPLETED THEN task.completed
    ELSE IF filter = FILTER_INCOMPLETE THEN ~task.completed
    ELSE TRUE

RECURSIVE ArrayFilter(_, _)
ArrayFilter(ts, filter) ==
    IF ts = << >> THEN << >>
    ELSE IF FilterKeeps(Head(ts), filter)
         THEN <<Head(ts)>> \o ArrayFilter(Tail(ts), filter)
         ELSE ArrayFilter(Tail(ts), filter)

FilteredTasks(s) == ArrayFilter(s.tasks, s.filter)

RenderMode_ErrorFirst(s) ==
    IF s.error # Null THEN "ERROR"
    ELSE IF s.loading /\ ~s.refreshing THEN "FULL_LOADING"
    ELSE IF s.loading /\ s.refreshing THEN "SKELETON"
    ELSE "LIST"

\* Which of the component's return statements is taken.
RenderMode(s) ==
    IF s.loading /\ ~s.refreshing THEN "FULL_LOADING"
    ELSE IF s.error # Null THEN "ERROR"
    ELSE IF s.loading /\ s.refreshing THEN "SKELETON"
    ELSE "LIST"

\* A continuation of an await on fetchTasks() is queued as a microtask: it runs
\* before any user event, network response or storage completion is handled.
MicrotaskPending == \E p \in Procs : pc[p] = "resume"

\* setState on a component that is no longer rendered changes nothing.
Commit(s) == IF mounted THEN s ELSE state

\* The updaters of one piece of code, applied in order, give s: the component
\* renders s, unless it is unmounted and React ignores the call.
SetState(s) ==
    /\ state' = Commit(s)
    /\ ignoredUpdate' = ~mounted
    /\ loadedOnce' = (loadedOnce \/ ~Commit(s).loading)


\* ------------------------------------------------------ setState updaters
\* (variant: the error of the previous attempt is kept)
FetchStarted_KeepsError(s) == [s EXCEPT !.loading = TRUE]

\* fetchTasks, first update
FetchStarted(s) == [s EXCEPT !.loading = TRUE, !.error = Null]

\* (variant: a task already in tasks keeps its local completed flag)
FetchSucceeded_Merged(s, data) ==
    [s EXCEPT !.loading = FALSE,
              !.tasks = [i \in 1..Len(data) |->
                  IF \E j \in 1..Len(s.tasks) : s.tasks[j].id = data[i].id
                  THEN LET j == CHOOSE j \in 1..Len(s.tasks) :
                                    s.tasks[j].id = data[i].id
                       IN [data[i] EXCEPT !.completed = s.tasks[j].completed]
                  ELSE data[i]]]

\* fetchTasks, update after axios.get resolved
FetchSucceeded(s, data) == [s EXCEPT !.tasks = data, !.loading = FALSE]

\* (variant: the catch branch sets the message and leaves loading alone)
FetchFailed_KeepsLoading(s) == [s EXCEPT !.error = ErrorMessage]

\* fetchTasks, update in the catch branch
FetchFailed(s) == [s EXCEPT !.loading = FALSE, !.error = ErrorMessage]

\* loadStoredTasks, update after getItem resolved
StorageRead(s) == [s EXCEPT !.loading = FALSE, !.refreshing = FALSE]

\* (variant: the stored value is found but not put into tasks)
StoredTasksLoaded_Dropped(s, storedTasks) == [s EXCEPT !.loading = FALSE]

\* loadStoredTasks, update when a stored value was found
StoredTasksLoaded(s, storedTasks) ==
    [s EXCEPT !.tasks = JSONParse(storedTasks), !.loading = FALSE]

\* (variant: the matching task is marked completed instead of flipped)
ToggleTasks_MarksDone(ts, taskId) ==
    [i \in 1..Len(ts) |->
        IF ts[i].id = taskId THEN [ts[i] EXCEPT !.completed = TRUE] ELSE ts[i]]

\* (variant: the matching task is filtered out of the array)
ToggleTasks_Removes(ts, taskId) ==
    SelectSeq(ts, LAMBDA t : t.id # taskId)

\* (variant: the id is not compared, every task is flipped)
ToggleTasks_Every(ts, taskId) ==
    [i \in 1..Len(ts) |-> [ts[i] EXCEPT !.completed = ~ts[i].completed]]

\* toggleComplete's map over tasks
ToggleTasks(ts, taskId) ==
    [i \in 1..Len(ts) |->
        IF ts[i].id = taskId THEN [ts[i] EXCEPT !.completed = ~ts[i].completed]
        ELSE ts[i]]

Toggled(s, taskId) == [s EXCEPT !.tasks = ToggleTasks(s.tasks, taskId)]

\* handleRefresh, first and last update
RefreshStarted(s) == [s EXCEPT !.refreshing = TRUE]
RefreshEnded(s) == [s EXCEPT !.refreshing = FALSE]

\* the filter buttons' onPress
FilterChosen(s, f) == [s EXCEPT !.filter = f]

\* (variant: fetchTasks rejects, handleRefresh is left at its await)
AfterFetchTasks_Throws(p) == IF p = InitProc THEN "done" ELSE "idle"

\* What fetchTasks resumes its caller with: loadStoredTasks does not await it,
\* handleRefresh does.
AfterFetchTasks(p) == IF p = InitProc THEN "done" ELSE "resume"

\* (variant: state.tasks of the current render is written, not response.data)
SetItemIssued_StaleState(p, data) ==
    Append(storageQueue, [proc |-> p, text |-> JSONStringify(state.tasks)])

\* AsyncStorage.setItem('tasks', JSON.stringify(response.data)), queued behind
\* the writes issued before it.
SetItemIssued(p, data) ==
    Append(storageQueue, [proc |-> p, text |-> JSONStringify(data)])

\* -------------------------------------------------- loadStoredTasks
\* getItem resolved with a non-empty string that parses: the stored tasks are used.
GetItemHit ==
    /\ pc[InitProc] = "getItem"
    /\ Truthy(cache) /\ ~JSONParseThrows(cache.text)
    /\ SetState(StoredTasksLoaded(StorageRead(state), cache.text))
    /\ pc' = [pc EXCEPT ![InitProc] = "done"]
    /\ localToggles' = FALSE
    /\ lastOp' = Op("getItemHit", InitProc)
    /\ UNCHANGED <<cache, mounted, response, storageQueue, initFetches, preRefresh,
                   lastSaved, tornDownDuring>>

\* getItem resolved with null or with '': the else branch calls fetchTasks(),
\* which runs up to its await of axios.get. This piece does not run inside an
\* event handler: a renderer that flushes every setState at once (legacy root)
\* renders the first update, loading false, before fetchTasks sets it again.
GetItemMiss ==
    /\ pc[InitProc] = "getItem"
    /\ ~Truthy(cache)
    /\ state' = Commit(FetchStarted(StorageRead(state)))
    /\ ignoredUpdate' = ~mounted
    /\ loadedOnce' \in (IF mounted THEN {loadedOnce, TRUE} ELSE {loadedOnce})
    /\ pc' = [pc EXCEPT ![InitProc] = "axios"]
    /\ initFetches' = initFetches + 1
    /\ lastOp' = Op("getItemMiss", InitProc)
    /\ UNCHANGED <<cache, mounted, response, storageQueue, preRefresh, localToggles,
                   lastSaved, tornDownDuring>>

\* getItem rejected: the catch branch calls fetchTasks().
GetItemRejected ==
    /\ pc[InitProc] = "getItem"
    /\ SetState(FetchStarted(state))
    /\ pc' = [pc EXCEPT ![InitProc] = "axios"]
    /\ initFetches' = initFetches + 1
    /\ lastOp' = Op("getItemRejected", InitProc)
    /\ UNCHANGED <<cache, mounted, response, storageQueue, preRefresh, localToggles,
                   lastSaved, tornDownDuring>>

\* getItem resolved with a non-empty string that is not JSON. JSON.parse is
\* called inside the updater, which React runs while rendering and not inside
\* loadStoredTasks' try block: the render throws and, with no error boundary,
\* the component is unmounted. What else happens depends on the renderer:
\*   - updates flushed later (batched): nothing of the two updates is committed
\*     and the catch branch is not entered, so no fetch is started;
\*   - updates flushed inside setState (legacy root): the first update is
\*     committed, the second setState rethrows into the try block and the catch
\*     branch calls fetchTasks() on the unmounted component.
\* On a component unmounted before, the updater is never run and nothing throws.
GetItemCorrupt ==
    /\ pc[InitProc] = "getItem"
    /\ Truthy(cache) /\ JSONParseThrows(cache.text)
    /\ mounted' = FALSE
    /\ lastOp' = Op("getItemCorrupt", InitProc)
    /\ \/ /\ state' = state
          /\ pc' = [pc EXCEPT ![InitProc] = "done"]
          /\ initFetches' = initFetches
          /\ ignoredUpdate' = ~mounted
          /\ loadedOnce' = loadedOnce
       \/ /\ mounted
          /\ state' = StorageRead(state)
          /\ pc' = [pc EXCEPT ![InitProc] = "axios"]
          /\ initFetches' = initFetches + 1
          /\ ignoredUpdate' = TRUE
          /\ loadedOnce' = TRUE
    /\ UNCHANGED <<cache, response, storageQueue, preRefresh, localToggles,
                   lastSaved, tornDownDuring>>

\* ------------------------------------------------------------ fetchTasks
\* axios.get resolved with data: tasks is replaced and the write is issued.
AxiosResolved(p, data) ==
    /\ pc[p] = "axios"
    /\ ~MicrotaskPending
    /\ SetState(FetchSucceeded(state, data))
    /\ response' = [response EXCEPT ![p] = data]
    /\ storageQueue' = SetItemIssued(p, data)
    /\ pc' = [pc EXCEPT ![p] = "setItem"]
    /\ localToggles' = IF mounted THEN FALSE ELSE localToggles
    /\ preRefresh' = IF p = 1 THEN NoTasks ELSE preRefresh
    /\ lastOp' = [op |-> "axiosResolved", proc |-> p, dirty |-> localToggles]
    /\ UNCHANGED <<cache, mounted, initFetches,
                   lastSaved, tornDownDuring>>

\* axios.get rejected (transport error, non-2xx status, undecodable body).
AxiosRejected(p) ==
    /\ pc[p] = "axios"
    /\ ~MicrotaskPending
    /\ SetState(FetchFailed(state))
    /\ pc' = [pc EXCEPT ![p] = AfterFetchTasks(p)]
    /\ lastOp' = Op("axiosRejected", p)
    /\ UNCHANGED <<cache, mounted, response, storageQueue, initFetches, preRefresh, localToggles,
                   lastSaved, tornDownDuring>>

\* The oldest outstanding setItem completed: the slot holds the string written.
SetItemResolved ==
    /\ storageQueue # << >>
    /\ ~MicrotaskPending
    /\ LET w == Head(storageQueue) IN
        /\ cache' = Item(w.text)
        /\ pc' = [pc EXCEPT ![w.proc] = AfterFetchTasks(w.proc)]
        /\ response' = [response EXCEPT ![w.proc] = NoTasks]
        /\ lastOp' = Op("setItemResolved", w.proc)
        /\ lastSaved' = Saved(response[w.proc])
    /\ storageQueue' = Tail(storageQueue)
    /\ ignoredUpdate' = FALSE
    /\ UNCHANGED <<state, mounted, initFetches, preRefresh, localToggles,
                   loadedOnce, tornDownDuring>>

\* The oldest outstanding setItem rejected: the rejection is thrown at the await
\* inside fetchTasks' try block, so the catch branch runs.
SetItemRejected ==
    /\ storageQueue # << >>
    /\ ~MicrotaskPending
    /\ LET w == Head(storageQueue) IN
        /\ pc' = [pc EXCEPT ![w.proc] = AfterFetchTasks(w.proc)]
        /\ response' = [response EXCEPT ![w.proc] = NoTasks]
        /\ lastOp' = Op("setItemRejected", w.proc)
    /\ SetState(FetchFailed(state))
    /\ storageQueue' = Tail(storageQueue)
    /\ UNCHANGED <<cache, mounted, initFetches, preRefresh, localToggles,
                   lastSaved, tornDownDuring>>


\* --------------------------------------------------------- handleRefresh
\* A new invocation takes the lowest slot not in use.
FreeSlot == CHOOSE r \in RefreshSlots :
                /\ pc[r] = "idle"
                /\ \A q \in RefreshSlots : pc[q] = "idle" => r <= q

\* handleRefresh up to its await: refreshing is set, then fetchTasks() runs up
\* to its await of axios.get. Both updates are made inside the event handler.
HandleRefresh(name) ==
    /\ mounted
    /\ ~MicrotaskPending
    /\ \E r \in RefreshSlots : pc[r] = "idle"
    /\ SetState(FetchStarted(RefreshStarted(state)))
    /\ pc' = [pc EXCEPT ![FreeSlot] = "axios"]
    /\ preRefresh' = IF FreeSlot = 1 THEN state.tasks ELSE preRefresh
    /\ lastOp' = Op(name, FreeSlot)
    /\ UNCHANGED <<cache, mounted, response, storageQueue, initFetches, localToggles,
                   lastSaved, tornDownDuring>>

\* The Retry button exists in the error view only.
Retry ==
    /\ RenderMode(state) = "ERROR"
    /\ HandleRefresh("retry")

\* The FlatList exists in the list view only, and its refresh control does not
\* fire onRefresh again while its refreshing prop is true.
PullToRefresh ==
    /\ RenderMode(state) = "LIST"
    /\ ~state.refreshing
    /\ HandleRefresh("pullToRefresh")

\* handleRefresh after its await of fetchTasks()
HandleRefreshResumed(p) ==
    /\ p \in RefreshSlots
    /\ pc[p] = "resume"
    /\ SetState(RefreshEnded(state))
    /\ pc' = [pc EXCEPT ![p] = "idle"]
    /\ preRefresh' = IF p = 1 THEN NoTasks ELSE preRefresh
    /\ lastOp' = Op("refreshDone", p)
    /\ UNCHANGED <<cache, mounted, response, storageQueue, initFetches, localToggles,
                   lastSaved, tornDownDuring>>

\* ------------------------------------------------------ the user's handlers
\* A card's button calls toggleComplete(item.id) for an item of filteredTasks.
ToggleComplete(taskId) ==
    /\ mounted
    /\ ~MicrotaskPending
    /\ RenderMode(state) = "LIST"
    /\ taskId \in IdsOf(FilteredTasks(state))
    /\ SetState(Toggled(state, taskId))
    /\ localToggles' = TRUE
    /\ lastOp' = Op("toggleComplete", taskId)
    /\ UNCHANGED <<cache, mounted, pc, response, storageQueue, initFetches, preRefresh,
                   lastSaved, tornDownDuring>>

\* The filter buttons are rendered above the skeleton and above the list.
SetFilter(f) ==
    /\ mounted
    /\ ~MicrotaskPending
    /\ RenderMode(state) \in {"SKELETON", "LIST"}
    /\ f # state.filter
    /\ SetState(FilterChosen(state, f))
    /\ lastOp' = Op("setFilter", InitProc)
    /\ UNCHANGED <<cache, mounted, pc, response, storageQueue, initFetches, preRefresh, localToggles,
                   lastSaved, tornDownDuring>>

\* ------------------------------------------------------------ specification
Next ==
    \/ GetItemHit
    \/ GetItemMiss
    \/ GetItemRejected
    \/ GetItemCorrupt
    \/ \E p \in Procs, data \in RemoteAnswers : AxiosResolved(p, data)
    \/ \E p \in Procs : AxiosRejected(p)
    \/ SetItemResolved
    \/ SetItemRejected
    \/ Retry
    \/ PullToRefresh
    \/ \E p \in RefreshSlots : HandleRefreshResumed(p)
    \/ \E taskId \in Ids : ToggleComplete(taskId)
    \/ \E f \in FILTER : SetFilter(f)

Spec == Init /\ [][Next]_vars


\* ------------------------------------------- the list view on its own
\* The states right after loadStoredTasks found a stored collection, for every
\* collection; from there the user toggles tasks and changes the filter.
ViewInit ==
    /\ cache \in {Item(JSONStringify(c)) : c \in TaskCollections}
    /\ state = StoredTasksLoaded(StorageRead(InitialAppState), cache.text)
    /\ mounted = TRUE
    /\ pc = [p \in Procs |-> IF p = InitProc THEN "done" ELSE "idle"]
    /\ response = [p \in Procs |-> NoTasks]
    /\ storageQueue = << >>
    /\ lastOp = Op("getItemHit", InitProc)
    /\ initFetches = 0
    /\ preRefresh = NoTasks
    /\ localToggles = FALSE
    /\ ignoredUpdate = FALSE
    /\ loadedOnce = TRUE
    /\ lastSaved = NothingSaved
    /\ tornDownDuring = {}

ViewNext ==
    \/ \E taskId \in Ids : ToggleComplete(taskId)
    \/ \E f \in FILTER : SetFilter(f)

ViewSpec == ViewInit /\ [][ViewNext]_vars


\* ------------------------------------------------ the component torn down
\* The host unmounts the component between two pieces of code. The effect of
\* line 74 returns no cleanup function and no continuation tests whether the
\* component is still mounted, so whatever is in flight runs on as before.
Unmount ==
    /\ mounted
    /\ ~MicrotaskPending
    /\ mounted' = FALSE
    /\ lastOp' = Op("unmount", InitProc)
    /\ ignoredUpdate' = FALSE
    /\ tornDownDuring' = {p \in Procs : pc[p] \in {"axios", "setItem"}}
    /\ UNCHANGED <<state, cache, pc, response, storageQueue, initFetches,
                   preRefresh, localToggles, loadedOnce, lastSaved>>

TeardownNext == Next \/ Unmount

TeardownSpec == Init /\ [][TeardownNext]_vars


\* --------------------------------------------- the render on every AppState
\* Every value of the AppState type, rendered with nothing in flight; the
\* handlers the rendered view offers are the ones that can run.
AppStates ==
    [tasks : TaskCollections, loading : BOOLEAN, error : {Null, ErrorMessage},
     refreshing : BOOLEAN, filter : FILTER]

RenderInit ==
    /\ state \in AppStates
    /\ cache = NoItem
    /\ mounted = TRUE
    /\ pc = [p \in Procs |-> IF p = InitProc THEN "done" ELSE "idle"]
    /\ response = [p \in Procs |-> NoTasks]
    /\ storageQueue = << >>
    /\ lastOp = Op("render", InitProc)
    /\ initFetches = 0
    /\ preRefresh = NoTasks
    /\ localToggles = FALSE
    /\ ignoredUpdate = FALSE
    /\ loadedOnce = ~state.loading
    /\ lastSaved = NothingSaved
    /\ tornDownDuring = {}

RenderSpec == RenderInit /\ [][ViewNext]_vars


\* ==================================================================== claims
\* getItem has resolved with a stored string that JSON.parse accepts.
CacheDecodable == cache.present /\ ~JSONParseThrows(cache.text)

\* The step in which loadStoredTasks resumes from its await of getItem.
ReadCompletes == pc[InitProc] = "getItem" /\ pc'[InitProc] # "getItem"

\* C1: when the slot holds a decodable value and the read succeeds, the initial
\* load ends in that step with tasks equal to the cached collection, loading
\* and refreshing false, and no remote call: none is issued then, and none is
\* issued on its behalf later.
C1_CacheHitSkipsRemote ==
    /\ [][(ReadCompletes /\ CacheDecodable /\ lastOp'.op # "getItemRejected") =>
            /\ JSONStringify(state'.tasks) = cache.text
            /\ ~state'.loading
            /\ ~state'.refreshing
            /\ state'.error = Null
            /\ pc'[InitProc] = "done"
            /\ initFetches' = 0
            /\ \A p \in Procs : pc'[p] # "axios"]_vars
    /\ [][pc[InitProc] = "done" =>
            pc'[InitProc] = "done" /\ initFetches' = initFetches]_vars

\* A stored, non-empty collection has just been loaded from the slot.
C1_Witness ==
    /\ lastOp.op = "getItemHit"
    /\ pc[InitProc] = "done"
    /\ state.tasks # NoTasks
    /\ cache = Item(JSONStringify(state.tasks))
    /\ initFetches = 0

\* C2: when the slot is empty, the initial load issues exactly one remote call;
\* when that call succeeds tasks is the returned collection and the write of
\* that collection is issued, and when the write completes the slot holds it.
C2_CacheMissFetchesOnce ==
    /\ [][(ReadCompletes /\ ~cache.present) =>
            initFetches' = 1 /\ pc'[InitProc] = "axios"]_vars
    /\ [](initFetches <= 1)
    /\ [][(~cache.present /\ pc[InitProc] = "axios" /\ pc'[InitProc] # "axios"
            /\ lastOp'.op = "axiosResolved") =>
            /\ state'.tasks = response'[InitProc]
            /\ ~state'.loading
            /\ pc'[InitProc] = "setItem"
            /\ storageQueue' =
                 <<[proc |-> InitProc, text |-> JSONStringify(state'.tasks)]>>]_vars
    /\ [][(pc[InitProc] = "setItem" /\ pc'[InitProc] # "setItem"
            /\ lastOp'.op = "setItemResolved") =>
            /\ cache'.present
            /\ ~JSONParseThrows(cache'.text)
            /\ JSONParse(cache'.text) = response[InitProc]
            /\ pc'[InitProc] = "done"]_vars

\* The slot was empty, the one remote call has succeeded with a non-empty
\* collection and its write is outstanding.
C2_Witness ==
    /\ lastOp = [op |-> "axiosResolved", proc |-> InitProc, dirty |-> FALSE]
    /\ ~cache.present
    /\ initFetches = 1
    /\ state.tasks = response[InitProc]
    /\ state.tasks # NoTasks
    /\ Len(storageQueue) = 1


\* C3 (as claimed): error goes from null to non-null only in the step that
\* handles a rejected axios.get, and a rejected setItem after a successful
\* fetch changes neither error nor tasks.
C3_ErrorOnlyFromFailedFetch ==
    [][/\ (state.error = Null /\ state'.error # Null) =>
            lastOp'.op = "axiosRejected"
       /\ lastOp'.op = "setItemRejected" =>
            state'.error = state.error /\ state'.tasks = state.tasks]_vars

\* C4 (as claimed): when the handleRefresh of slot 1 resumes after its
\* axios.get was rejected, tasks is what it was when that refresh started,
\* error is the fixed message, and loading and refreshing are false.
C4_FailedRefreshKeepsTasks ==
    [][(pc[1] = "resume" /\ pc'[1] = "idle" /\ lastOp.op = "axiosRejected") =>
            /\ state'.tasks = preRefresh
            /\ state'.error = ErrorMessage
            /\ ~state'.loading
            /\ ~state'.refreshing]_vars

\* The stored string cannot be decoded: it is there and JSON.parse rejects it.
CacheCorrupt == cache.present /\ JSONParseThrows(cache.text)

\* C5 (as claimed): when the read fails (getItem rejects, or the stored value
\* cannot be decoded) the initial load goes on to the remote fetch, and error
\* is still null at that point.
C5_ReadFailureFallsBack ==
    [][(ReadCompletes /\ (CacheCorrupt \/ lastOp'.op = "getItemRejected")) =>
            /\ pc'[InitProc] = "axios"
            /\ initFetches' = 1
            /\ state'.error = Null]_vars


\* C6: every step that turns loading or refreshing from false to true leaves
\* error null; so does a refresh started from the error view.
C6_ErrorClearedWhenFetchStarts ==
    [][((~state.loading /\ state'.loading)
            \/ (~state.refreshing /\ state'.refreshing)) =>
        state'.error = Null]_vars

\* Retry has just been pressed in the error view: refreshing and loading are
\* true and the old error is gone.
C6_Witness ==
    /\ lastOp.op = "retry"
    /\ state.refreshing
    /\ state.loading
    /\ state.error = Null
    /\ pc[lastOp.proc] = "axios"

\* C7: the step in which a refresh's axios.get resolves sets tasks to the
\* returned collection, whatever toggles were applied before, and issues the
\* write of that collection; when that write completes the slot holds it.
C7_RefreshReplacesTasks ==
    /\ [][\A p \in RefreshSlots :
            (pc[p] = "axios" /\ pc'[p] = "setItem") =>
                /\ state'.tasks = response'[p]
                /\ response'[p] \in RemoteAnswers
                /\ storageQueue' = Append(storageQueue,
                        [proc |-> p, text |-> JSONStringify(response'[p])])]_vars
    /\ [][\A p \in RefreshSlots :
            (pc[p] = "setItem" /\ pc'[p] # "setItem"
                /\ lastOp'.op = "setItemResolved") =>
                /\ cache'.present
                /\ ~JSONParseThrows(cache'.text)
                /\ JSONParse(cache'.text) = response[p]]_vars

\* A refresh's fetch has just resolved after a toggle had been applied: tasks
\* is the returned collection.
C7_Witness ==
    /\ lastOp.op = "axiosResolved"
    /\ lastOp.proc \in RefreshSlots
    /\ lastOp.dirty
    /\ state.tasks = response[lastOp.proc]
    /\ state.tasks # NoTasks

\* C8: a toggleComplete(taskId) step flips the completed flag of the tasks
\* whose id is taskId and changes nothing else: not the other tasks, the
\* order or the length, not loading, error, refreshing or filter, not the
\* slot, and it starts no remote call and no write.
C8_ToggleFrame ==
    [][lastOp'.op = "toggleComplete" =>
        /\ Len(state'.tasks) = Len(state.tasks)
        /\ \A i \in 1..Len(state.tasks) :
            /\ state'.tasks[i].id = state.tasks[i].id
            /\ state'.tasks[i].title = state.tasks[i].title
            /\ state'.tasks[i].completed =
                 (IF state.tasks[i].id = lastOp'.proc
                  THEN ~state.tasks[i].completed
                  ELSE state.tasks[i].completed)
        /\ state'.loading = state.loading
        /\ state'.error = state.error
        /\ state'.refreshing = state.refreshing
        /\ state'.filter = state.filter
        /\ cache' = cache
        /\ pc' = pc
        /\ storageQueue' = storageQueue
        /\ initFetches' = initFetches]_vars

\* A task has just been toggled in a list that holds another task, while a
\* write is outstanding.
C8_Witness ==
    /\ lastOp.op = "toggleComplete"
    /\ Len(state.tasks) >= 2
    /\ storageQueue # << >>


\* An id that no task of any collection has.
AbsentId == MaxTasks + 1

\* C9: for the tasks of every state and every id, toggling twice gives tasks
\* back and toggling an id no task has changes nothing; and after a
\* toggleComplete(id) step, one more toggle of id gives the tasks from before
\* the step.
C9_ToggleInvolution ==
    /\ [](\A id \in Ids \cup {AbsentId} :
            /\ ToggleTasks(ToggleTasks(state.tasks, id), id) = state.tasks
            /\ id \notin IdsOf(state.tasks) =>
                    ToggleTasks(state.tasks, id) = state.tasks)
    /\ [][lastOp'.op = "toggleComplete" =>
            /\ state'.tasks # state.tasks
            /\ Toggled(state', lastOp'.proc) = state]_vars

\* A task has just been toggled in a collection that lacks one of the ids.
C9_Witness ==
    /\ lastOp.op = "toggleComplete"
    /\ \E id \in Ids : id \notin IdsOf(state.tasks)
    /\ \E i \in 1..Len(state.tasks) :
            state.tasks[i].id = lastOp.proc /\ state.tasks[i].completed

\* The elements of a sequence.
Range(seq) == {seq[i] : i \in 1..Len(seq)}

\* sub is seq with some elements left out, the others in their order.
IsSubsequence(sub, seq) ==
    \E f \in [1..Len(sub) -> 1..Len(seq)] :
        /\ \A k \in 1..Len(sub) : seq[f[k]] = sub[k]
        /\ \A k, l \in 1..Len(sub) : k < l => f[k] < f[l]

\* C10: the visible tasks under ALL are tasks itself, under COMPLETED exactly
\* the completed tasks, under INCOMPLETE exactly the others; each is a
\* subsequence of tasks, the two are disjoint and together hold every task.
C10_FilterPartition ==
    LET all == ArrayFilter(state.tasks, FILTER_ALL)
        done == ArrayFilter(state.tasks, FILTER_COMPLETED)
        open == ArrayFilter(state.tasks, FILTER_INCOMPLETE)
    IN  /\ all = state.tasks
        /\ Range(done) = {t \in Range(state.tasks) : t.completed}
        /\ Range(open) = {t \in Range(state.tasks) : ~t.completed}
        /\ IsSubsequence(done, state.tasks)
        /\ IsSubsequence(open, state.tasks)
        /\ Range(done) \cap Range(open) = {}
        /\ Range(done) \cup Range(open) = Range(state.tasks)
        /\ Len(done) + Len(open) = Len(state.tasks)
        /\ FilteredTasks(state) \in {all, done, open}
        /\ state.filter = FILTER_COMPLETED => FilteredTasks(state) = done
        /\ state.filter = FILTER_INCOMPLETE => FilteredTasks(state) = open
        /\ state.filter = FILTER_ALL => FilteredTasks(state) = all

\* The filter has just been set to INCOMPLETE on a completed task followed by
\* an open one: the second task alone is visible.
C10_Witness ==
    /\ lastOp.op = "setFilter"
    /\ state.filter = FILTER_INCOMPLETE
    /\ Len(state.tasks) = 2
    /\ state.tasks[1].completed
    /\ ~state.tasks[2].completed
    /\ FilteredTasks(state) = <<state.tasks[2]>>

\* C11: the view rendered depends on loading, refreshing and error only: the
\* spinner exactly when loading and not refreshing; the error view exactly when
\* error is set and the spinner is not shown; the skeleton exactly when loading
\* and refreshing with no error; the list exactly when not loading with no
\* error. So the error wins over the skeleton and the spinner over the error.
RenderModes == {"FULL_LOADING", "ERROR", "SKELETON", "LIST"}

C11_RenderPrecedence ==
    LET mode == RenderMode(state)
        spinner == state.loading /\ ~state.refreshing
        failed == state.error # Null
    IN  /\ mode \in RenderModes
        /\ (mode = "FULL_LOADING") = spinner
        /\ (mode = "ERROR") = (failed /\ ~spinner)
        /\ (mode = "SKELETON") = (state.loading /\ state.refreshing /\ ~failed)
        /\ (mode = "LIST") = (~state.loading /\ ~failed)
        /\ \A ts \in TaskCollections, f \in FILTER :
               RenderMode([state EXCEPT !.tasks = ts, !.filter = f]) = mode

\* Loading with an error set and no refresh: the spinner is rendered, and the
\* error view is not.
C11_Witness ==
    /\ state.loading
    /\ ~state.refreshing
    /\ state.error # Null
    /\ state.tasks # NoTasks
    /\ RenderMode(state) = "FULL_LOADING"

\* No call of getItem, axios.get or setItem is outstanding and no continuation
\* is waiting to run.
Quiescent ==
    /\ \A p \in Procs : pc[p] \in {"idle", "done"}
    /\ storageQueue = << >>

\* C12: once every remote and cache call has returned, loading and refreshing
\* are both false: no failure of the remote call, of the cache read or of the
\* cache write leaves one of them true with nothing left to clear it.
C12_NothingLeftStuck ==
    Quiescent => (~state.loading /\ ~state.refreshing)

\* An invocation of handleRefresh has not run its last update yet.
RefreshesInFlight == {p \in RefreshSlots : pc[p] # "idle"}

\* A call of axios.get has not returned yet.
RemoteCallsInFlight == {p \in Procs : pc[p] = "axios"}

\* The rendered view holds a control that calls handleRefresh when used, and
\* the event can be handled: no continuation is queued ahead of it.
RetryOffered ==
    mounted /\ ~MicrotaskPending /\ RenderMode(state) = "ERROR"
PullOffered ==
    mounted /\ ~MicrotaskPending /\ RenderMode(state) = "LIST" /\ ~state.refreshing

\* C13: at most one handleRefresh is in flight and at most one remote call is
\* outstanding, and while a refresh or a remote call is outstanding the view
\* offers neither Retry nor pull-to-refresh.
C13_OneRefreshAtATime ==
    /\ Cardinality(RefreshesInFlight) <= 1
    /\ Cardinality(RemoteCallsInFlight) <= 1
    /\ (RefreshesInFlight # {} \/ RemoteCallsInFlight # {})
           => (~RetryOffered /\ ~PullOffered)

\* C14: with nothing in flight, a cache written in this run holds the
\* collection returned by the fetch whose write succeeded last, whatever tasks
\* has become through toggles since; the slot changes only when the oldest
\* outstanding write lands, to the text of the collection its fetch returned,
\* so a write never lands after one issued later.
C14_CacheIsLastSavedFetch ==
    /\ [](Quiescent /\ lastSaved.saved
            => /\ cache.present
               /\ ~JSONParseThrows(cache.text)
               /\ JSONParse(cache.text) = lastSaved.data)
    /\ [][cache' # cache
            => /\ storageQueue # << >>
               /\ storageQueue' = Tail(storageQueue)
               /\ cache' = Item(JSONStringify(response[Head(storageQueue).proc]))
               /\ lastSaved' = Saved(response[Head(storageQueue).proc])]_vars

\* A refresh has been saved, the user has toggled a task since, and nothing is
\* in flight: the cache holds the fetched collection, not the toggled one.
C14_Witness ==
    /\ Quiescent
    /\ mounted
    /\ lastSaved.saved
    /\ lastSaved.data # NoTasks
    /\ localToggles
    /\ state.tasks # lastSaved.data
    /\ cache = Item(JSONStringify(lastSaved.data))
    /\ initFetches = 0

\* The pieces of code that run when a fetch completes, with success or failure.
FetchCompletions == {"axiosResolved", "axiosRejected", "setItemRejected"}

\* C15: when a fetch completes after the component was torn down, its
\* completion hands no update of tasks, loading, error or refreshing to
\* setState.
C15_NoUpdateAfterTeardown ==
    (lastOp.op \in FetchCompletions /\ lastOp.proc \in tornDownDuring)
        => ~ignoredUpdate

\* C16: once a render has seen loading false, no later render of the mounted
\* component sees loading true with refreshing false: the full-screen spinner
\* belongs to the initial load only.
C16_SpinnerOnlyOnce ==
    (mounted /\ loadedOnce) => RenderMode(state) # "FULL_LOADING"

\* C17: in every state of the mounted component, refreshing is true while a
\* handleRefresh has started and not run its last update, and loading is true
\* while a call of axios.get has not returned.
C17_FlagsTrackWork ==
    mounted =>
        /\ (RefreshesInFlight # {} => state.refreshing)
        /\ (RemoteCallsInFlight # {} => state.loading)

\* The ids and titles of a collection, in its order.
Shape(ts) == [i \in 1..Len(ts) |-> <<ts[i].id, ts[i].title>>]

\* The collections tasks can be replaced with: none yet, the stored one read at
\* startup, one that axios.get returned.
KnownShapes ==
    {Shape(NoTasks)}
        \cup {Shape(JSONParse(c.text)) :
                 c \in {v \in InitialCacheValues :
                           v.present /\ ~JSONParseThrows(v.text)}}
        \cup {Shape(c) : c \in RemoteAnswers}

\* C18: the ids and titles of tasks, in order, are always those of the empty
\* collection, of the stored collection or of a fetched one. A step changes
\* tasks only by replacing it with the stored collection (initial load) or
\* with the collection a fetch returned, or, in toggleComplete, by changing
\* completed flags and nothing else.
C18_TasksShapeKept ==
    /\ [](Shape(state.tasks) \in KnownShapes)
    /\ [][\/ state'.tasks = state.tasks
          \/ /\ lastOp'.op = "getItemHit"
             /\ state'.tasks = JSONParse(cache.text)
          \/ /\ lastOp'.op = "axiosResolved"
             /\ state'.tasks = response'[lastOp'.proc]
          \/ /\ lastOp'.op = "toggleComplete"
             /\ Shape(state'.tasks) = Shape(state.tasks)]_vars

\* A fetched collection has been saved and the user has toggled tasks of it
\* under a filter: tasks differs from what was fetched, in flags only.
C18_Witness ==
    /\ lastOp.op = "toggleComplete"
    /\ state.filter # FILTER_ALL
    /\ lastSaved.saved
    /\ Len(state.tasks) = MaxTasks
    /\ state.tasks # lastSaved.data
    /\ Shape(state.tasks) = Shape(lastSaved.data)

\* The pieces of code that call fetchTasks(), and those that end in its catch
\* branch.
FetchStarts == {"getItemMiss", "getItemRejected", "retry", "pullToRefresh"}
FetchFailures == {"axiosRejected", "setItemRejected"}

\* C19: loading true and error set never hold together, however the initial
\* load, the refreshes and their completions interleave: a step that starts a
\* fetch leaves loading true with error null, a step that ends in the catch
\* branch leaves error set with loading false.
C19_NeverLoadingWithError ==
    /\ [](~(state.loading /\ state.error # Null))
    /\ [][(mounted /\ lastOp'.op \in FetchStarts)
            => (state'.loading /\ state'.error = Null)]_vars
    /\ [][(mounted /\ lastOp'.op \in FetchFailures)
            => (state'.error # Null /\ ~state'.loading)]_vars

\* A write has just failed while the remote call of a refresh is outstanding:
\* the error is set and loading is false.
C19_Witness ==
    /\ mounted
    /\ lastOp.op = "setItemRejected"
    /\ RemoteCallsInFlight # {}
    /\ state.error # Null
    /\ ~state.loading
    /\ state.refreshing

\* C20: fetchTasks always returns to its caller normally. A refresh whose
\* remote call or write fails is resumed after its await like one that
\* succeeds, an invocation of handleRefresh ends only by its last update, which
\* leaves refreshing false, and a failure of the fetch the initial load started
\* ends the initial load: its catch branch does not run and no second fetch is
\* started for it.
C20_FetchTasksNeverThrows ==
    /\ [][\A p \in RefreshSlots :
            /\ (pc[p] = "axios" /\ pc'[p] # "axios")
                  => pc'[p] \in {"setItem", "resume"}
            /\ (pc[p] = "setItem" /\ pc'[p] # "setItem") => pc'[p] = "resume"
            /\ (pc[p] # "idle" /\ pc'[p] = "idle")
                  => (pc[p] = "resume" /\ (mounted => ~state'.refreshing))]_vars
    /\ [][(lastOp'.op \in FetchFailures /\ lastOp'.proc \in RefreshSlots)
            => pc'[lastOp'.proc] = "resume"]_vars
    /\ [][(lastOp'.op \in FetchFailures /\ lastOp'.proc = InitProc)
            => (pc'[InitProc] = "done" /\ initFetches' = initFetches)]_vars
    /\ [][pc[InitProc] # "getItem" => initFetches' = initFetches]_vars

\* The write of a refresh has just been rejected: the failure was caught, the
\* error is set and handleRefresh is about to run its last update.
C20_Witness ==
    /\ mounted
    /\ lastOp.op = "setItemRejected"
    /\ lastOp.proc \in RefreshSlots
    /\ pc[lastOp.proc] = "resume"
    /\ state.refreshing
    /\ state.error # Null

====
